---- MODULE Spec2Model ----
(***************************************************************************)
(* Model of the analytics-dashboard tunnel: StreamHandler                  *)
(* (src/src/websocket-manager.js) driving the DataProcessor revisions that *)
(* the repository holds (src/src/data-processor.js, src/unnamed/part_001,  *)
(* src/unnamed/part_002).  Buffers are sequences of bytes 0..255, indexed   *)
(* from 1 (the code's offset o is index o+1 here).                         *)
(***************************************************************************)
EXTENDS Integers, Sequences, FiniteSets, TLC

(***************************************************************************)
(* Byte helpers                                                            *)
(***************************************************************************)

\* Buffer.slice(from, to): bytes at offsets from .. to-1, clipped to the buffer
Slice(data, from, to) ==
  LET hi == IF to > Len(data) THEN Len(data) ELSE to
  IN  IF from >= hi THEN <<>> ELSE [i \in 1..(hi - from) |-> data[from + i]]

\* Buffer.readUInt8(offset)
ReadUInt8(data, offset) == data[offset + 1]

\* readUInt16LE in place of readUInt16BE
ReadUInt16BE_littleEndian(data, offset) == data[offset + 1] + data[offset + 2] * 256

\* Buffer.readUInt16BE(offset)
ReadUInt16BE(data, offset) == data[offset + 1] * 256 + data[offset + 2]

RECURSIVE Digits(_, _)
\* Number.prototype.toString(base) for n >= 0, as a sequence of character codes
Digits(n, base) ==
  LET d  == n % base
      ch == IF d < 10 THEN 48 + d ELSE 87 + d
  IN  IF n < base THEN <<ch>> ELSE Digits(n \div base, base) \o <<ch>>

RECURSIVE Join(_, _)
\* Array.prototype.join(sep) over already rendered parts
Join(parts, sep) ==
  IF Len(parts) = 0 THEN <<>>
  ELSE IF Len(parts) = 1 THEN parts[1]
  ELSE parts[1] \o <<sep>> \o Join(Tail(parts), sep)

\* Array.from(data.slice(o, o+4)).join('.')
RenderIPv4(data, offset) ==
  Join([i \in 1..4 |-> Digits(data[offset + i], 10)], 46)

\* the eight groups rendered in decimal
RenderIPv6_decimal(data, offset) ==
  Join([i \in 1..8 |-> Digits(ReadUInt16BE(data, offset + (i - 1) * 2), 10)], 58)

\* eight readUInt16BE(...).toString(16) groups joined by ':'
RenderIPv6(data, offset) ==
  Join([i \in 1..8 |-> Digits(ReadUInt16BE(data, offset + (i - 1) * 2), 16)], 58)

\* /[a-f0-9]/i on one character code
IsHexChar(b) == (b >= 48 /\ b <= 57) \/ (b >= 97 /\ b <= 102) \/ (b >= 65 /\ b <= 70)

\* value of one hex digit, -1 when the character is no hex digit
HexVal(b) ==
  IF b >= 48 /\ b <= 57 THEN b - 48
  ELSE IF b >= 97 /\ b <= 102 THEN b - 87
  ELSE IF b >= 65 /\ b <= 70 THEN b - 55
  ELSE 0 - 1

(***************************************************************************)
(* Configuration (src/unnamed/part_004)                                    *)
(***************************************************************************)

\* config.dataSource.primary.apiKey as deployed through ANALYTICS_API_KEY:
\* the UUID "a1b2c3d4-0102-0304-0506-0708090a0b0c" as character codes
apiKey ==
  << 97, 49, 98, 50, 99, 51, 100, 52, 45, 48, 49, 48, 50, 45, 48, 51, 48, 52, 45,
     48, 53, 48, 54, 45, 48, 55, 48, 56, 48, 57, 48, 97, 48, 98, 48, 99 >>

\* lowercase hex SHA-224 of config.dataSource.streaming.token
\* ('default-stream-token'), as character codes
expectedHash ==
  << 50, 50, 97, 98, 55, 101, 100, 101, 49, 52, 55, 54, 49, 101, 48, 51, 49, 102,
     57, 56, 98, 49, 48, 56, 52, 54, 50, 102, 55, 49, 53, 101, 99, 102, 51, 55,
     101, 55, 57, 102, 54, 49, 53, 100, 101, 56, 48, 49, 101, 48, 53, 56, 56, 53,
     56, 101 >>

\* config.dataSource.bufferSize is 8192 in the source; the model scales the cap
\* down so that a few garbage messages exceed it
bufferSize == 72

(***************************************************************************)
(* Parse results.  A JavaScript field that is absent (undefined) is the     *)
(* empty sequence, a present one is a one-element sequence.                 *)
(***************************************************************************)

Undefined == <<>>
Some(x) == <<x>>

Failure ==
  [success |-> FALSE, format |-> Undefined, target |-> Undefined,
   payload |-> Undefined, host |-> Undefined, port |-> Undefined,
   remainingBuffer |-> Undefined, headerLength |-> Undefined]

(***************************************************************************)
(* DataProcessor, revision src/unnamed/part_001 (formats P and S)          *)
(***************************************************************************)

RECURSIVE StripDashes(_)
\* identifierString.replace(/-/g, '')
StripDashes(s) ==
  IF Len(s) = 0 THEN <<>>
  ELSE IF Head(s) = 45 THEN StripDashes(Tail(s))
  ELSE <<Head(s)>> \o StripDashes(Tail(s))

RECURSIVE FromHex(_)
\* Buffer.from(str, 'hex'): whole pairs of hex digits, up to the first invalid pair
FromHex(s) ==
  IF Len(s) < 2 THEN <<>>
  ELSE IF HexVal(s[1]) < 0 \/ HexVal(s[2]) < 0 THEN <<>>
  ELSE <<HexVal(s[1]) * 16 + HexVal(s[2])>> \o FromHex(Tail(Tail(s)))

parseIdentifier(identifierString) == FromHex(StripDashes(identifierString))

\* DataProcessor.detectDataFormat of part_001
detectFormatType(data) ==
  IF Len(data) < 16 THEN "unknown"
  ELSE IF data[1] = 0 /\ Len(data) >= 17 THEN "primary"
  ELSE IF Len(data) >= 56 /\ \A i \in 1..56 : IsHexChar(data[i]) THEN "streaming"
  ELSE "unknown"

\* DataProcessor.parseAddress of part_001: [success, type, address, offset]
parseAddress(data, offset) ==
  IF offset >= Len(data) THEN [success |-> FALSE, type |-> "", address |-> <<>>, offset |-> offset]
  ELSE
    LET addressType == ReadUInt8(data, offset)
        o1 == offset + 1
    IN  CASE addressType = 1 ->
               IF o1 + 4 > Len(data)
               THEN [success |-> FALSE, type |-> "", address |-> <<>>, offset |-> o1]
               ELSE [success |-> TRUE, type |-> "ipv4",
                     address |-> RenderIPv4(data, o1), offset |-> o1 + 4]
          [] addressType = 3 ->
               IF o1 >= Len(data)
               THEN [success |-> FALSE, type |-> "", address |-> <<>>, offset |-> o1]
               ELSE LET domainLength == ReadUInt8(data, o1)
                        o2 == o1 + 1
                    IN  IF o2 + domainLength > Len(data)
                        THEN [success |-> FALSE, type |-> "", address |-> <<>>, offset |-> o2]
                        ELSE [success |-> TRUE, type |-> "domain",
                              address |-> Slice(data, o2, o2 + domainLength),
                              offset |-> o2 + domainLength]
          [] addressType = 4 ->
               IF o1 + 16 > Len(data)
               THEN [success |-> FALSE, type |-> "", address |-> <<>>, offset |-> o1]
               ELSE [success |-> TRUE, type |-> "ipv6",
                     address |-> RenderIPv6(data, o1), offset |-> o1 + 16]
          [] OTHER -> [success |-> FALSE, type |-> "", address |-> <<>>, offset |-> o1]

\* the success object with the whole buffer counted as header
Matched_consumesAll(fmt, addressInfo, port, data) ==
  [success |-> TRUE, format |-> Some(fmt),
   target |-> Some([type |-> addressInfo.type, address |-> addressInfo.address,
                    port |-> port]),
   payload |-> Some(<<>>),
   host |-> Undefined, port |-> Undefined, remainingBuffer |-> Undefined,
   headerLength |-> Some(Len(data))]

\* the success object of processPrimaryData / processStreamingData
Matched(fmt, addressInfo, port, data) ==
  [success |-> TRUE, format |-> Some(fmt),
   target |-> Some([type |-> addressInfo.type, address |-> addressInfo.address,
                    port |-> port]),
   payload |-> Some(Slice(data, addressInfo.offset, Len(data))),
   host |-> Undefined, port |-> Undefined, remainingBuffer |-> Undefined,
   headerLength |-> Some(addressInfo.offset)]

\* processPrimaryData reading the command right after the addon length
processPrimaryData_fixedHeader(data) ==
  IF Len(data) < 16 THEN Failure
  ELSE IF ReadUInt8(data, 0) # 0 THEN Failure
  ELSE IF Slice(data, 1, 17) # parseIdentifier(apiKey) THEN Failure
  ELSE IF 17 >= Len(data) THEN Failure
  ELSE
    LET oCmd == 18
    IN  IF oCmd >= Len(data) THEN Failure
        ELSE IF oCmd + 1 + 2 > Len(data) THEN Failure
        ELSE
          LET port == ReadUInt16BE(data, oCmd + 1)
              addressInfo == parseAddress(data, oCmd + 3)
          IN  IF ~addressInfo.success THEN Failure
              ELSE Matched("primary", addressInfo, Some(port), data)

\* DataProcessor.processPrimaryData of part_001
processPrimaryData(data) ==
  IF Len(data) < 16 THEN Failure
  ELSE IF ReadUInt8(data, 0) # 0 THEN Failure
  ELSE IF Slice(data, 1, 17) # parseIdentifier(apiKey) THEN Failure
  ELSE IF 17 >= Len(data) THEN Failure
  ELSE
    LET metadataLength == ReadUInt8(data, 17)
        oCmd == 18 + metadataLength
    IN  IF oCmd >= Len(data) THEN Failure
        ELSE IF oCmd + 1 + 2 > Len(data) THEN Failure
        ELSE
          LET port == ReadUInt16BE(data, oCmd + 1)
              addressInfo == parseAddress(data, oCmd + 3)
          IN  IF ~addressInfo.success THEN Failure
              ELSE Matched("primary", addressInfo, Some(port), data)

\* DataProcessor.processStreamingData of part_001
processStreamingData(data) ==
  IF Len(data) < 56 THEN Failure
  ELSE IF Slice(data, 0, 56) # expectedHash THEN Failure
  ELSE IF 56 + 2 > Len(data) \/ data[57] # 13 \/ data[58] # 10 THEN Failure
  ELSE IF 58 >= Len(data) THEN Failure
  ELSE
    LET addressInfo == parseAddress(data, 59)
    IN  IF ~addressInfo.success THEN Failure
        ELSE
          LET o == addressInfo.offset
          IN  IF o + 2 > Len(data) \/ data[o + 1] # 13 \/ data[o + 2] # 10 THEN Failure
              ELSE \* target.port is addressInfo.port, a field parseAddress no longer returns
                   Matched("streaming", [addressInfo EXCEPT !.offset = o + 2], Undefined, data)

\* DataProcessor.parseDataPacket of part_001
parseDataPacketDual(data) ==
  IF Len(data) = 0 THEN Failure
  ELSE CASE detectFormatType(data) = "primary" -> processPrimaryData(data)
         [] detectFormatType(data) = "streaming" -> processStreamingData(data)
         [] OTHER -> Failure

(***************************************************************************)
(* DataProcessor, revision src/src/data-processor.js (header skipped        *)
(* unchecked; result fields host, port, remainingBuffer)                    *)
(***************************************************************************)

\* the success object {success, host, port, remainingBuffer}
HostMatched(host, port, rest) ==
  [success |-> TRUE, format |-> Undefined, target |-> Undefined,
   payload |-> Undefined, host |-> Some(host), port |-> Some(port),
   remainingBuffer |-> rest, headerLength |-> Undefined]

\* DataProcessor.parseDataPacket of src/src/data-processor.js
parseDataPacketHead(data) ==
  IF Len(data) < 17 THEN Failure
  ELSE IF Len(data) < 17 + 1 THEN Failure
  ELSE
    LET addonLength == ReadUInt8(data, 17)
        oCmd == 18 + addonLength
        oPort == oCmd + 1
        oType == oPort + 2
        oAddr == oType + 1
    IN  IF Len(data) < oCmd THEN Failure
        ELSE IF Len(data) < oCmd + 1 THEN Failure
        ELSE IF Len(data) < oPort + 2 THEN Failure
        ELSE IF Len(data) < oType + 1 THEN Failure
        ELSE
          LET port == ReadUInt16BE(data, oPort)
              addressType == ReadUInt8(data, oType)
          IN  CASE addressType = 1 ->
                     IF Len(data) < oAddr + 4 THEN Failure
                     ELSE HostMatched(RenderIPv4(data, oAddr), port,
                                      Some(Slice(data, oAddr + 4, Len(data))))
                [] addressType = 3 ->
                     IF Len(data) < oAddr + 1 THEN Failure
                     ELSE LET domainLength == ReadUInt8(data, oAddr)
                              oName == oAddr + 1
                          IN  IF Len(data) < oName + domainLength THEN Failure
                              ELSE HostMatched(Slice(data, oName, oName + domainLength), port,
                                               Some(Slice(data, oName + domainLength, Len(data))))
                [] addressType = 4 ->
                     IF Len(data) < oAddr + 16 THEN Failure
                     ELSE HostMatched(RenderIPv6(data, oAddr), port,
                                      Some(Slice(data, oAddr + 16, Len(data))))
                [] OTHER -> Failure

(***************************************************************************)
(* DataProcessor, revision src/unnamed/part_002 (24-byte minimum, address   *)
(* type 2 read as a domain, no remainder returned)                          *)
(***************************************************************************)

\* DataProcessor.parseDataPacket of part_002
parseDataPacketMin(data) ==
  IF Len(data) < 24 THEN Failure
  ELSE
    LET addonLength == ReadUInt8(data, 17)
        oPort == 17 + 1 + addonLength + 1
        oAddr == oPort + 3
    IN  IF Len(data) < oPort + 3 THEN Failure
        ELSE
          LET port == ReadUInt16BE(data, oPort)
              addressType == ReadUInt8(data, oPort + 2)
          IN  CASE addressType = 1 ->
                     IF Len(data) < oAddr + 4 THEN Failure
                     ELSE HostMatched(RenderIPv4(data, oAddr), port, Undefined)
                [] addressType \in {2, 3} ->
                     IF Len(data) < oAddr + 1 THEN Failure
                     ELSE LET domainLength == ReadUInt8(data, oAddr)
                              oName == oAddr + 1
                          IN  IF Len(data) < oName + domainLength THEN Failure
                              ELSE HostMatched(Slice(data, oName, oName + domainLength),
                                               port, Undefined)
                [] addressType = 4 ->
                     IF Len(data) < oAddr + 16 THEN Failure
                     ELSE HostMatched(RenderIPv6(data, oAddr), port, Undefined)
                [] OTHER -> Failure

\* the DataProcessor revisions of the repository
Processors == {"part_001", "data-processor.js", "part_002"}

\* this.dataProcessor.parseDataPacket(buffer) of the revision in use
parseDataPacket(rev, data) ==
  CASE rev = "part_001" -> parseDataPacketDual(data)
    [] rev = "data-processor.js" -> parseDataPacketHead(data)
    [] OTHER -> parseDataPacketMin(data)

(***************************************************************************)
(* Client inputs                                                           *)
(***************************************************************************)

\* total client messages, and total target chunks, handled in one run
MaxMsgs == 3
MaxChunks == 2
\* identifiers of the client connections accepted in one run
Conns == {1}

\* the 16 identifier bytes of apiKey
IdBytes == << 161, 178, 195, 212, 1, 2, 3, 4, 5, 6, 7, 8, 9, 10, 11, 12 >>

\* Format P header: version 0, identifier, addon length 0, command 1,
\* port 443, address type 1, 93.184.216.34
PHeader == <<0>> \o IdBytes \o << 0, 1, 1, 187, 1, 93, 184, 216, 34 >>
\* the same frame followed by two payload bytes in the same message
PFrame == PHeader \o << 71, 69 >>

\* Format S frame in the layout part_001 reads: digest, CR LF, command,
\* address type 3, length 3, "a.b", CR LF, then one payload byte
SFrame == expectedHash \o << 13, 10, 1, 3, 3, 97, 46, 98, 13, 10, 72 >>

\* 40 bytes that start neither format
Garbage == [i \in 1..40 |-> 255]

PingPrefix ==
  << 123, 34, 116, 121, 112, 101, 34, 58, 34, 112, 105, 110, 103, 34, 44, 34,
     116, 105, 109, 101, 115, 116, 97, 109, 112, 34, 58 >>
SubPrefix ==
  << 123, 34, 97, 99, 116, 105, 111, 110, 34, 58, 34, 115, 117, 98, 115, 99,
     114, 105, 98, 101, 34, 44, 34, 99, 104, 97, 110, 110, 101, 108, 34, 58, 34 >>
\* the text {"type":"ping","timestamp":T}
PingText(T) == PingPrefix \o Digits(T, 10) \o << 125 >>
\* the text {"action":"subscribe","channel":"<ch>"}
SubText(ch) == SubPrefix \o ch \o << 34, 125 >>
\* the text {"type":"x"}
OtherJson == << 123, 34, 116, 121, 112, 101, 34, 58, 34, 120, 34, 125 >>

\* the ping timestamps and the channel names the modelled clients use
Timestamps == { 42 }
Channels == { << 109 >> }

\* what the modelled clients send
ClientMsgs ==
  { PFrame, SFrame, Garbage, OtherJson, << 65, 66 >> }
    \cup { PingText(T) : T \in Timestamps } \cup { SubText(ch) : ch \in Channels }

\* what the modelled target servers send
TargetChunks == { << 88 >>, << 89, 90 >> }

(***************************************************************************)
(* Frames for the detection runs: a client sends one frame, whole or in     *)
(* pieces                                                                   *)
(***************************************************************************)

\* longest payload that follows a header in the same frame
MaxTail == 2
\* the payloads tried: the prefixes of "GET" up to MaxTail bytes
Tails == { Slice(<< 71, 69, 84 >>, 0, n) : n \in 0..MaxTail }
\* the command bytes tried
Commands == { 0, 1, 255 }

\* Format P frame: version, identifier, addon length 0, command, port 443,
\* address type, the four bytes 93.184.216.34, payload
PFrameOf(version, id, command, addressType, tail) ==
  << version >> \o id \o << 0, command, 1, 187, addressType, 93, 184, 216, 34 >> \o tail

\* the text "93.184.216.34"
Ipv4Text == << 57, 51, 46, 49, 56, 52, 46, 50, 49, 54, 46, 51, 52 >>
\* the text "example.com"
ExampleCom == << 101, 120, 97, 109, 112, 108, 101, 46, 99, 111, 109 >>

\* valid Format P frames to 93.184.216.34:443
ValidPFrames == { PFrameOf(0, IdBytes, cmd, 1, tail) : cmd \in Commands, tail \in Tails }
\* valid Format P frame to the domain "a.b", port 8080, with payload
PDomainFrame == << 0 >> \o IdBytes \o << 0, 1, 31, 144, 3, 3, 97, 46, 98, 71, 69 >>

\* the identifier with byte i changed
FlipId(i) == [IdBytes EXCEPT ![i] = (@ + 1) % 256]
\* frames that are valid Format P except for the version byte or for one
\* identifier byte
BadAuthPFrames ==
  { PFrameOf(v, IdBytes, 1, 1, << 71 >>) : v \in { 1, 255 } }
    \cup { PFrameOf(0, FlipId(i), 1, 1, << 71 >>) : i \in 1..16 }
\* Format P frame with an address type that is none of 1, 3, 4
BadTypePFrame == PFrameOf(0, IdBytes, 1, 5, << 71 >>)

\* Format S frame in the documented layout: digest, CR LF, command, address
\* type 3, length-prefixed "example.com", port 8080, CR LF
SFrameWithPort ==
  expectedHash \o << 13, 10, 1, 3, 11 >> \o ExampleCom \o << 31, 144, 13, 10 >>
\* SFrame with one digest character changed, and with a bad first separator
BadDigestSFrame == [SFrame EXCEPT ![1] = 51]
BadSeparatorSFrame == [SFrame EXCEPT ![57] = 32]

\* Format P frame with address type 2 followed by what would be a
\* length-prefixed domain "a.b"
BadType2Frame == << 0 >> \o IdBytes \o << 0, 1, 1, 187, 2, 3, 97, 46, 98 >>
BadTypeFrames == { BadTypePFrame, BadType2Frame }

\* String.prototype.toUpperCase on one hex character
ToUpper(b) == IF b >= 97 /\ b <= 102 THEN b - 32 ELSE b
\* SFrame with the letters of its digest in upper case
UpperSFrame == [i \in 1..Len(SFrame) |-> IF i <= 56 THEN ToUpper(SFrame[i]) ELSE SFrame[i]]

\* Format P frame to the IPv6 address 2001:db8::1, port 65535, with payload
PIPv6Frame ==
  << 0 >> \o IdBytes
    \o << 0, 1, 255, 255, 4, 32, 1, 13, 184, 0, 0, 0, 0, 0, 0, 0, 0, 0, 0, 0, 1, 71, 69 >>
\* Format P frame with three addon bytes, to the domain "a.b", port 8080,
\* with payload
PAddonFrame == << 0 >> \o IdBytes \o << 3, 9, 9, 9, 1, 31, 144, 3, 3, 97, 46, 98, 71, 69 >>

\* the frames a client of a detection run may hold
Frames ==
  ValidPFrames \cup { PDomainFrame, BadTypePFrame, SFrame, SFrameWithPort,
                      BadDigestSFrame, BadSeparatorSFrame }
    \cup BadAuthPFrames
    \cup { BadType2Frame, UpperSFrame, PIPv6Frame, PAddonFrame }

RECURSIVE ParseNat(_)
\* the number written by a non-empty sequence of decimal digits
ParseNat(ds) ==
  IF Len(ds) = 1 THEN ds[1] - 48
  ELSE ParseNat(SubSeq(ds, 1, Len(ds) - 1)) * 10 + (ds[Len(ds)] - 48)

HasPrefix(data, pre) == Len(data) >= Len(pre) /\ SubSeq(data, 1, Len(pre)) = pre

NotJson == [ok |-> FALSE, type |-> "", action |-> "", timestamp |-> 0, channel |-> <<>>]

\* JSON.parse(data.toString()) on the shapes the clients send: a ping object
\* with a number, a subscribe object with a plain string, {"type":"x"};
\* every other input of the model is no JSON text and makes JSON.parse throw
JsonParse(data) ==
  LET pingBody == SubSeq(data, Len(PingPrefix) + 1, Len(data) - 1)
      subBody  == SubSeq(data, Len(SubPrefix) + 1, Len(data) - 2)
  IN  IF /\ HasPrefix(data, PingPrefix) /\ Len(data) >= Len(PingPrefix) + 2
         /\ data[Len(data)] = 125
         /\ \A i \in 1..Len(pingBody) : pingBody[i] >= 48 /\ pingBody[i] <= 57
         /\ (Len(pingBody) = 1 \/ pingBody[1] # 48)
      THEN [ok |-> TRUE, type |-> "ping", action |-> "",
            timestamp |-> ParseNat(pingBody), channel |-> <<>>]
      ELSE IF /\ HasPrefix(data, SubPrefix) /\ Len(data) >= Len(SubPrefix) + 2
              /\ SubSeq(data, Len(data) - 1, Len(data)) = << 34, 125 >>
              /\ \A i \in 1..Len(subBody) :
                   subBody[i] >= 32 /\ subBody[i] < 127 /\ subBody[i] \notin {34, 92}
      THEN [ok |-> TRUE, type |-> "", action |-> "subscribe",
            timestamp |-> 0, channel |-> subBody]
      ELSE IF data = OtherJson
      THEN [ok |-> TRUE, type |-> "x", action |-> "", timestamp |-> 0, channel |-> <<>>]
      ELSE NotJson

(***************************************************************************)
(* State                                                                   *)
(***************************************************************************)

VARIABLES
  processor,          \* the DataProcessor revision behind require('./data-processor')
  activeConnections,  \* keys of StreamHandler.activeConnections
  connections,        \* the connectionInfo objects (they outlive their registry entry)
  ws,                 \* ws.readyState per connection (NoSocket before it is accepted)
  interval,           \* the setInterval timer of a connection is armed
  timeout,            \* the 1000 ms setTimeout of a connection is pending
  sock,               \* state of the outbound socket made by net.createConnection
  dataHandler,        \* the socket has the 'data' listener of setupDataSourceHandling
  toTarget,           \* per connection, the buffers written to the outbound socket, in order
  toClient,           \* per connection, the binary messages sent to the client, in order
  relayIn,            \* per connection, the client messages received in stage 'streaming'
  relayOut,           \* per connection, the chunks the 'data' listener received, each
                      \* with whether the client WebSocket was OPEN then
  cleared,            \* connections whose buffer was cleared for exceeding the cap
  last,               \* the event handled last: its input, what it did, what it returned
  crashed,            \* an exception left a handler: the process is gone
  nMsgs,              \* client messages handled so far
  nChunks,            \* target chunks handled so far
  frame,              \* detection runs: the frame the client is sending
  delivered,          \* detection runs: how many bytes of it have been delivered
  dashboardGenerator  \* the DecoyDataGenerator of the StreamHandler: its history
                      \* lists, the order of generation and all it ever generated

vars ==
  << processor, activeConnections, connections, ws, interval, timeout, sock,
     dataHandler, toTarget, toClient, relayIn, relayOut, cleared, last, crashed,
     nMsgs, nChunks, frame, delivered, dashboardGenerator >>

\* ws.readyState: the code tests readyState === 1, which is OPEN
OPEN == "OPEN"
CLOSING == "CLOSING"
CLOSED == "CLOSED"
\* no WebSocket yet: the connection has not been accepted
NoSocket == "none"

\* the connectionInfo literal of handleChartConnection; before accept there is no object
NoConnection ==
  [stage |-> "none", buffer |-> <<>>, isDataStream |-> FALSE,
   dashboardInterval |-> "undefined", formatInfo |-> Failure, targetConnection |-> FALSE]
NewConnection ==
  [stage |-> "dashboard", buffer |-> <<>>, isDataStream |-> FALSE,
   dashboardInterval |-> "undefined", formatInfo |-> Failure, targetConnection |-> FALSE]

\* one observable call made by a handler
Fx(op, kind, num, bytes) == [op |-> op, kind |-> kind, num |-> num, bytes |-> bytes]
FxOp(op) == Fx(op, "", 0, <<>>)
FxText(kind, num, bytes) == Fx("ws.send", kind, num, bytes)
FxBinary(bytes) == Fx("ws.send", "binary", 0, bytes)
FxWrite(bytes) == Fx("target.write", "", 0, bytes)

\* The state a handler works on: the variables the code can change, the calls
\* made so far (fx), closeConnection's return value (ret) and whether an
\* exception is propagating (thrown).
World ==
  [reg |-> activeConnections, conn |-> connections, ws |-> ws, interval |-> interval,
   timeout |-> timeout, sock |-> sock, dataHandler |-> dataHandler,
   toTarget |-> toTarget, toClient |-> toClient, gen |-> dashboardGenerator,
   fx |-> <<>>, ret |-> "none", thrown |-> FALSE]

Did(W, e) == [W EXCEPT !.fx = Append(@, e)]

(***************************************************************************)
(* DecoyDataGenerator (src/src/decoy-data-generator.js)                    *)
(***************************************************************************)

\* the length the history lists are kept to (100 in the code) and the number
\* of entries generated in a run
HistoryLimit == 2
MaxClock == 9

\* the generator after construction; clock numbers the entries in the order
\* of their generation and log keeps, per list, every entry ever generated
NewGenerator ==
  [dataHistory |-> [metrics |-> <<>>, analytics |-> <<>>, monitoring |-> <<>>],
   log |-> [metrics |-> <<>>, analytics |-> <<>>, monitoring |-> <<>>],
   clock |-> 0]

\* push, then shift while keeping the oldest entries instead of the newest
Remember_dropsNewest(history, entry) ==
  LET pushed == Append(history, entry)
  IN  IF Len(pushed) > HistoryLimit THEN SubSeq(pushed, 1, HistoryLimit) ELSE pushed

\* "Store historical data": push, then shift once beyond the limit
Remember(history, entry) ==
  LET pushed == Append(history, entry)
  IN  IF Len(pushed) > HistoryLimit THEN Tail(pushed) ELSE pushed

generateMetrics(G) ==
  [G EXCEPT !.dataHistory.metrics = Remember(@, G.clock),
            !.log.metrics = Append(@, G.clock), !.clock = @ + 1]

generateAnalytics(G) ==
  [G EXCEPT !.dataHistory.analytics = Remember(@, G.clock),
            !.log.analytics = Append(@, G.clock), !.clock = @ + 1]

generateMonitoring(G) ==
  [G EXCEPT !.dataHistory.monitoring = Remember(@, G.clock),
            !.log.monitoring = Append(@, G.clock), !.clock = @ + 1]

\* the object literal evaluates metrics, analytics, monitoring in this order
generateDashboardData(G) == generateMonitoring(generateAnalytics(generateMetrics(G)))


(***************************************************************************)
(* StreamHandler (src/src/websocket-manager.js)                            *)
(***************************************************************************)

\* the try block of closeConnection with the registry entry left in place
closeCleanup_keepsEntry(W, c) ==
    LET k  == W.conn[c]
        W1 == IF k.dashboardInterval = "handle"
              THEN Did([W EXCEPT !.interval[c] = FALSE], FxOp("clearInterval"))
              ELSE W
        W2 == IF k.targetConnection
              THEN Did([W1 EXCEPT !.sock[c] =
                          IF @ \in {"connecting", "connected"} THEN "destroyed" ELSE @],
                       FxOp("target.destroy"))
              ELSE W1
        W3 == IF W2.ws[c] = OPEN
              THEN Did([W2 EXCEPT !.ws[c] = CLOSING], FxOp("ws.close"))
              ELSE W2
    IN  [W3 EXCEPT !.ret = "true"]

\* the try block of closeConnection with the timer left running
closeCleanup_keepsTimer(W, c) ==
    LET k  == W.conn[c]
        W2 == IF k.targetConnection
              THEN Did([W EXCEPT !.sock[c] =
                          IF @ \in {"connecting", "connected"} THEN "destroyed" ELSE @],
                       FxOp("target.destroy"))
              ELSE W
        W3 == IF W2.ws[c] = OPEN
              THEN Did([W2 EXCEPT !.ws[c] = CLOSING], FxOp("ws.close"))
              ELSE W2
    IN  [Did([W3 EXCEPT !.reg = @ \ {c}], FxOp("delete")) EXCEPT !.ret = "true"]

\* the try block of closeConnection: timer, target socket, WebSocket, registry
closeCleanup(W, c) ==
    LET k  == W.conn[c]
        W1 == IF k.dashboardInterval = "handle"
              THEN Did([W EXCEPT !.interval[c] = FALSE], FxOp("clearInterval"))
              ELSE W
        W2 == IF k.targetConnection
              THEN Did([W1 EXCEPT !.sock[c] =
                          IF @ \in {"connecting", "connected"} THEN "destroyed" ELSE @],
                       FxOp("target.destroy"))
              ELSE W1
        W3 == IF W2.ws[c] = OPEN
              THEN Did([W2 EXCEPT !.ws[c] = CLOSING], FxOp("ws.close"))
              ELSE W2
    IN  [Did([W3 EXCEPT !.reg = @ \ {c}], FxOp("delete")) EXCEPT !.ret = "true"]

\* closeConnection with the registry lookup forgotten
closeConnection_unguarded(W, c) == closeCleanup(W, c)

\* StreamHandler.closeConnection
closeConnection(W, c) ==
  IF c \notin W.reg THEN [W EXCEPT !.ret = "false"] ELSE closeCleanup(W, c)

\* StreamHandler.sendDashboardData
sendDashboardData(W, c) ==
  IF c \notin W.reg THEN W
  ELSE IF W.ws[c] # OPEN THEN W
  ELSE Did([W EXCEPT !.gen = generateDashboardData(@)],
           FxText("dashboard_update", 0, <<>>))

\* StreamHandler.startDashboardDataSending
startDashboardDataSending(W, c) ==
  IF c \notin W.reg \/ W.conn[c].stage # "dashboard" THEN W
  ELSE Did(Did([W EXCEPT !.timeout[c] = TRUE, !.interval[c] = TRUE,
                         !.conn[c].dashboardInterval = "handle"],
               FxOp("setTimeout")), FxOp("setInterval"))

\* StreamHandler.handleChartConnection
handleChartConnection(W, c) ==
  startDashboardDataSending(
    [W EXCEPT !.conn[c] = NewConnection, !.reg = @ \cup {c}], c)

\* the callback given to setTimeout in startDashboardDataSending
initialSend(W, c) == sendDashboardData([W EXCEPT !.timeout[c] = FALSE], c)

\* the interval callback stopping its own timer after one send
intervalCallback_oneShot(W, c) ==
  IF W.conn[c].stage = "dashboard" /\ W.ws[c] = OPEN
  THEN Did([sendDashboardData(W, c) EXCEPT !.interval[c] = FALSE], FxOp("clearInterval"))
  ELSE Did([W EXCEPT !.interval[c] = FALSE], FxOp("clearInterval"))

\* the callback given to setInterval in startDashboardDataSending
intervalCallback(W, c) ==
  IF W.conn[c].stage = "dashboard" /\ W.ws[c] = OPEN
  THEN sendDashboardData(W, c)
  ELSE Did([W EXCEPT !.interval[c] = FALSE], FxOp("clearInterval"))

\* createResponse with a non-zero status byte in the Format P header
createResponse_statusOne(rev, format) ==
  IF rev # "part_001" THEN [threw |-> TRUE, bytes |-> <<>>]
  ELSE IF format = Some("primary") THEN [threw |-> FALSE, bytes |-> << 0, 0, 1 >>]
  ELSE [threw |-> FALSE, bytes |-> <<>>]

\* DataProcessor.createResponse: only part_001 has the method; elsewhere the
\* call throws a TypeError.  [threw, bytes]
createResponse(rev, format) ==
  IF rev # "part_001" THEN [threw |-> TRUE, bytes |-> <<>>]
  ELSE IF format = Some("primary") THEN [threw |-> FALSE, bytes |-> << 0, 0, 0 >>]
  ELSE [threw |-> FALSE, bytes |-> <<>>]

\* StreamHandler.sendFormatResponse
sendFormatResponse(W, c, formatInfo) ==
  IF c \notin W.reg \/ W.ws[c] # OPEN THEN W
  ELSE
    LET response == createResponse(processor, formatInfo.format)
    IN  IF ~response.threw /\ Len(response.bytes) > 0
        THEN Did([W EXCEPT !.toClient[c] = Append(@, response.bytes)],
                 FxBinary(response.bytes))
        ELSE W

\* StreamHandler.setupDataSourceHandling
setupDataSourceHandling(W, c) ==
  IF c \notin W.reg THEN W ELSE [W EXCEPT !.dataHandler[c] = TRUE]

\* targetSocket.write(bytes): bytes reach the peer only over a live socket
socketWrite(W, c, bytes) ==
  Did(IF W.sock[c] = "connected" THEN [W EXCEPT !.toTarget[c] = Append(@, bytes)] ELSE W,
      FxWrite(bytes))

\* the connect listener with the payload write left out
writeLeftover_skipped(W, c, formatInfo) == W

\* the connect listener's "if there's payload data, forward to data source"
writeLeftover(W, c, formatInfo) ==
  IF formatInfo.payload # Undefined /\ Len(formatInfo.payload[1]) > 0
  THEN socketWrite(W, c, formatInfo.payload[1])
  ELSE W

\* the 'connect' listener moving the stage on without keeping the socket
onTargetConnect_noTarget(W, c, formatInfo) ==
  LET W1 == [W EXCEPT !.conn[c].stage = "streaming"]
      W2 == sendFormatResponse(W1, c, formatInfo)
      W3 == writeLeftover(W2, c, formatInfo)
  IN  setupDataSourceHandling(W3, c)

\* the 'connect' listener of establishDataConnection
onTargetConnect(W, c, formatInfo) ==
  LET W1 == [W EXCEPT !.conn[c].stage = "streaming", !.conn[c].targetConnection = TRUE]
      W2 == sendFormatResponse(W1, c, formatInfo)
      W3 == writeLeftover(W2, c, formatInfo)
  IN  setupDataSourceHandling(W3, c)

\* StreamHandler.establishDataConnection up to net.createConnection: reading
\* target.address of an absent target throws a TypeError, and
\* net.createConnection without a port throws ERR_MISSING_ARGS
establishDataConnection(W, c, formatInfo) ==
  IF c \notin W.reg THEN W
  ELSE IF formatInfo.target = Undefined THEN [W EXCEPT !.thrown = TRUE]
  ELSE IF formatInfo.target[1].port = Undefined THEN [W EXCEPT !.thrown = TRUE]
  ELSE Did([W EXCEPT !.sock[c] = "connecting"], FxOp("createConnection"))

\* the cap branch closing the connection instead of clearing the buffer
onNoMatch_closes(W, c) ==
  IF Len(W.conn[c].buffer) > bufferSize THEN closeConnection(W, c) ELSE W

\* the else branch telling the client that its data matched no format
onNoMatch_reportsError(W, c) ==
  Did(IF Len(W.conn[c].buffer) > bufferSize
      THEN Did([W EXCEPT !.conn[c].buffer = <<>>], FxOp("log.bufferCleared"))
      ELSE W,
      FxText("error", 0, <<>>))

\* the else branch giving up the connection at the first failed match
onNoMatch_rejects(W, c) == closeConnection(W, c)

\* the else branch letting the buffer grow without a cap
onNoMatch_unbounded(W, c) == W

\* detectDataFormat's else branch: a buffer beyond the cap is cleared
onNoMatch(W, c) ==
  IF Len(W.conn[c].buffer) > bufferSize
  THEN Did([W EXCEPT !.conn[c].buffer = <<>>], FxOp("log.bufferCleared"))
  ELSE W

\* StreamHandler.detectDataFormat
detectDataFormat(W, c, data) ==
  IF c \notin W.reg THEN W
  ELSE
    LET buffer == W.conn[c].buffer \o data
        W1 == [W EXCEPT !.conn[c].buffer = buffer]
        parseResult == parseDataPacket(processor, buffer)
    IN  IF parseResult.success
        THEN LET W2 == IF W1.conn[c].dashboardInterval = "handle"
                       THEN Did([W1 EXCEPT !.interval[c] = FALSE,
                                           !.conn[c].dashboardInterval = "null"],
                                FxOp("clearInterval"))
                       ELSE W1
                 W3 == [W2 EXCEPT !.conn[c].stage = "detected",
                                  !.conn[c].isDataStream = TRUE,
                                  !.conn[c].formatInfo = parseResult]
             IN  establishDataConnection(W3, c, parseResult)
        ELSE onNoMatch(W1, c)

\* StreamHandler.forwardDataToTarget
forwardDataToTarget(W, c, data) ==
  IF c \notin W.reg \/ ~W.conn[c].targetConnection THEN W
  ELSE socketWrite(W, c, data)

\* a pong carrying the server's clock in place of the ping's timestamp
pongMessage_serverTime(message) == FxText("pong", 0, <<>>)

\* the pongMessage object of handleConnectionMessage (serverTime left out)
pongMessage(message) == FxText("pong", message.timestamp, <<>>)

\* the subscription response object of handleConnectionMessage (timestamp left out)
subscriptionResponse(message) == FxText("subscription_confirmed", 0, message.channel)

\* handleConnectionMessage keeping what arrives during the connect
handleConnectionMessage_buffersDetected(W, c, data) ==
  IF c \notin W.reg THEN W
  ELSE
    LET message == JsonParse(data)
    IN  IF message.ok /\ message.type = "ping"
        THEN IF W.ws[c] = OPEN
             THEN Did(W, pongMessage(message))
             ELSE W
        ELSE IF message.ok /\ message.action = "subscribe"
        THEN IF W.ws[c] = OPEN
             THEN Did(W, subscriptionResponse(message))
             ELSE W
        ELSE IF W.conn[c].stage = "dashboard" THEN detectDataFormat(W, c, data)
        ELSE IF W.conn[c].stage = "streaming" THEN forwardDataToTarget(W, c, data)
        ELSE [W EXCEPT !.conn[c].buffer = @ \o data]

\* handleConnectionMessage swallowing every text that parses as JSON
handleConnectionMessage_dropsJson(W, c, data) ==
  IF c \notin W.reg THEN W
  ELSE
    LET message == JsonParse(data)
    IN  IF message.ok /\ message.type = "ping"
        THEN IF W.ws[c] = OPEN
             THEN Did(W, pongMessage(message))
             ELSE W
        ELSE IF message.ok /\ message.action = "subscribe"
        THEN IF W.ws[c] = OPEN
             THEN Did(W, subscriptionResponse(message))
             ELSE W
        ELSE IF message.ok THEN W
        ELSE IF W.conn[c].stage = "dashboard" THEN detectDataFormat(W, c, data)
        ELSE IF W.conn[c].stage = "streaming" THEN forwardDataToTarget(W, c, data)
        ELSE W

\* StreamHandler.handleConnectionMessage
handleConnectionMessage(W, c, data) ==
  IF c \notin W.reg THEN W
  ELSE
    LET message == JsonParse(data)
    IN  IF message.ok /\ message.type = "ping"
        THEN IF W.ws[c] = OPEN
             THEN Did(W, pongMessage(message))
             ELSE W
        ELSE IF message.ok /\ message.action = "subscribe"
        THEN IF W.ws[c] = OPEN
             THEN Did(W, subscriptionResponse(message))
             ELSE W
        ELSE IF W.conn[c].stage = "dashboard" THEN detectDataFormat(W, c, data)
        ELSE IF W.conn[c].stage = "streaming" THEN forwardDataToTarget(W, c, data)
        ELSE W

\* the 'data' listener without its readyState check
onTargetData_unchecked(W, c, data) ==
  Did([W EXCEPT !.toClient[c] = Append(@, data)], FxBinary(data))

\* the 'data' listener of setupDataSourceHandling
onTargetData(W, c, data) ==
  IF W.ws[c] = OPEN
  THEN Did([W EXCEPT !.toClient[c] = Append(@, data)], FxBinary(data))
  ELSE W

\* a 'timeout' listener that only guards the connect phase
onTargetTimeout_connectOnly(W, c) ==
  IF W.conn[c].stage = "detected"
  THEN closeConnection(
         Did([W EXCEPT !.sock[c] = "destroyed"], FxOp("timeout.destroy")), c)
  ELSE W

\* the 'timeout' listener of establishDataConnection
onTargetTimeout(W, c) ==
  closeConnection(
    Did([W EXCEPT !.sock[c] = "destroyed"], FxOp("timeout.destroy")), c)

(***************************************************************************)
(* Events                                                                  *)
(***************************************************************************)

\* what is remembered of the event handled last
Event(name, c, data, W) ==
  [event |-> name, id |-> c, data |-> data,
   stageBefore |-> connections[c].stage, registeredBefore |-> c \in activeConnections,
   wsBefore |-> ws[c], fx |-> W.fx, ret |-> W.ret]

\* the handler ran from World to W: its effects become the next state; an
\* exception that left the handler is uncaught and ends the process
Commit(name, c, data, W) ==
  /\ activeConnections' = W.reg
  /\ connections' = W.conn
  /\ ws' = W.ws
  /\ interval' = W.interval
  /\ timeout' = W.timeout
  /\ sock' = W.sock
  /\ dataHandler' = W.dataHandler
  /\ toTarget' = W.toTarget
  /\ toClient' = W.toClient
  /\ last' = Event(name, c, data, W)
  /\ cleared' = IF \E i \in 1..Len(W.fx) : W.fx[i].op = "log.bufferCleared"
                THEN cleared \cup {c} ELSE cleared
  /\ crashed' = W.thrown
  /\ processor' = processor
  /\ frame' = frame
  /\ dashboardGenerator' = W.gen

\* the StreamHandler after construction: nothing accepted yet
ConstructedFor(ids) ==
  /\ processor \in Processors
  /\ activeConnections = {}
  /\ connections = [c \in ids |-> NoConnection]
  /\ ws = [c \in ids |-> NoSocket]
  /\ interval = [c \in ids |-> FALSE]
  /\ timeout = [c \in ids |-> FALSE]
  /\ sock = [c \in ids |-> "none"]
  /\ dataHandler = [c \in ids |-> FALSE]
  /\ toTarget = [c \in ids |-> <<>>]
  /\ toClient = [c \in ids |-> <<>>]
  /\ relayIn = [c \in ids |-> <<>>]
  /\ relayOut = [c \in ids |-> <<>>]
  /\ cleared = {}
  /\ last = [event |-> "start", id |-> 0, data |-> <<>>, stageBefore |-> "none",
             registeredBefore |-> FALSE, wsBefore |-> NoSocket, fx |-> <<>>, ret |-> "none"]
  /\ crashed = FALSE
  /\ nMsgs = 0
  /\ nChunks = 0
  /\ dashboardGenerator = NewGenerator

Constructed == ConstructedFor(Conns)

Init == Constructed /\ frame = <<>> /\ delivered = 0

\* wss 'connection': handleChartConnection on an open WebSocket
Accept(c) ==
  /\ ~crashed /\ ws[c] = NoSocket
  /\ Commit("accept", c, <<>>, handleChartConnection([World EXCEPT !.ws[c] = OPEN], c))
  /\ UNCHANGED << relayIn, relayOut, nMsgs, nChunks, delivered >>

\* ws 'message': a message arrives while the client has not closed
ClientMessage(c, data) ==
  /\ ~crashed /\ nMsgs < MaxMsgs
  /\ ws[c] = OPEN \/ (ws[c] = CLOSING /\ c \notin activeConnections)
  /\ Commit("message", c, data, handleConnectionMessage(World, c, data))
  /\ relayIn' = IF c \in activeConnections /\ connections[c].stage = "streaming"
                THEN [relayIn EXCEPT ![c] = Append(@, data)] ELSE relayIn
  /\ nMsgs' = nMsgs + 1
  /\ UNCHANGED << relayOut, nChunks, delivered >>

\* the client's closing handshake starts: readyState leaves OPEN before
\* the 'close' event is emitted; no listener of the StreamHandler runs
ClientBeginClose(c) ==
  /\ ~crashed /\ ws[c] = OPEN
  /\ Commit("closing", c, <<>>, [World EXCEPT !.ws[c] = CLOSING])
  /\ UNCHANGED << relayIn, relayOut, nMsgs, nChunks, delivered >>

\* ws 'close'
ClientClose(c) ==
  /\ ~crashed /\ ws[c] \in {OPEN, CLOSING}
  /\ Commit("close", c, <<>>, closeConnection([World EXCEPT !.ws[c] = CLOSED], c))
  /\ UNCHANGED << relayIn, relayOut, nMsgs, nChunks, delivered >>

\* ws 'error': emitted with readyState CLOSING, 'close' follows
ClientError(c) ==
  /\ ~crashed /\ ws[c] = OPEN
  /\ Commit("error", c, <<>>, closeConnection([World EXCEPT !.ws[c] = CLOSING], c))
  /\ UNCHANGED << relayIn, relayOut, nMsgs, nChunks, delivered >>

\* the 1000 ms timer of startDashboardDataSending fires
InitialTimeout(c) ==
  /\ ~crashed /\ timeout[c]
  /\ initialSend(World, c).gen.clock <= MaxClock
  /\ Commit("initial", c, <<>>, initialSend(World, c))
  /\ UNCHANGED << relayIn, relayOut, nMsgs, nChunks, delivered >>

\* the periodic timer of startDashboardDataSending fires
IntervalFire(c) ==
  /\ ~crashed /\ interval[c]
  /\ intervalCallback(World, c).gen.clock <= MaxClock
  /\ Commit("interval", c, <<>>, intervalCallback(World, c))
  /\ UNCHANGED << relayIn, relayOut, nMsgs, nChunks, delivered >>

\* target 'connect'
TargetConnect(c) ==
  /\ ~crashed /\ sock[c] = "connecting"
  /\ Commit("target.connect", c, <<>>,
            onTargetConnect([World EXCEPT !.sock[c] = "connected"], c,
                            connections[c].formatInfo))
  /\ UNCHANGED << relayIn, relayOut, nMsgs, nChunks, delivered >>

\* target 'error': the listener runs, then the socket is torn down
TargetError(c) ==
  /\ ~crashed /\ sock[c] \in {"connecting", "connected"}
  /\ LET W == closeConnection(World, c)
     IN  Commit("target.error", c, <<>>, [W EXCEPT !.sock[c] = "destroyed"])
  /\ UNCHANGED << relayIn, relayOut, nMsgs, nChunks, delivered >>

\* target 'timeout': no traffic for config.dataSource.timeout, connected or not
TargetTimeout(c) ==
  /\ ~crashed /\ sock[c] \in {"connecting", "connected"}
  /\ Commit("target.timeout", c, <<>>, onTargetTimeout(World, c))
  /\ UNCHANGED << relayIn, relayOut, nMsgs, nChunks, delivered >>

\* target 'close': after destroy() or an error, or because the peer closed
TargetClose(c) ==
  /\ ~crashed /\ sock[c] \in {"connected", "destroyed"}
  /\ Commit("target.close", c, <<>>, closeConnection([World EXCEPT !.sock[c] = "closed"], c))
  /\ UNCHANGED << relayIn, relayOut, nMsgs, nChunks, delivered >>

\* target 'data'
TargetData(c, data) ==
  /\ ~crashed /\ nChunks < MaxChunks
  /\ sock[c] = "connected" /\ dataHandler[c]
  /\ Commit("target.data", c, data, onTargetData(World, c, data))
  /\ relayOut' = [relayOut EXCEPT ![c] = Append(@, [data |-> data, open |-> ws[c] = OPEN])]
  /\ nChunks' = nChunks + 1
  /\ UNCHANGED << relayIn, nMsgs, delivered >>

Next ==
  \E c \in DOMAIN connections :
    \/ Accept(c)
    \/ \E data \in ClientMsgs : ClientMessage(c, data)
    \/ ClientBeginClose(c)
    \/ ClientClose(c)
    \/ ClientError(c)
    \/ InitialTimeout(c)
    \/ IntervalFire(c)
    \/ TargetConnect(c)
    \/ TargetError(c)
    \/ TargetTimeout(c)
    \/ TargetClose(c)
    \/ \E data \in TargetChunks : TargetData(c, data)

Spec == Init /\ [][Next]_vars

\* the outbound socket of a connect in flight emits 'connect', 'error' or
\* 'timeout' in the end: net.createConnection is given the timeout option
ConnectSettles(c) == TargetConnect(c) \/ TargetError(c) \/ TargetTimeout(c)

FairSpec == Spec /\ \A c \in Conns : WF_vars(ConnectSettles(c))

(***************************************************************************)
(* Detection runs: one client sends one frame, whole or split into pieces   *)
(* of any sizes (empty messages included), each piece a ws 'message'        *)
(***************************************************************************)

\* ws 'message' carrying the next n bytes of the frame; the client sends
\* empty messages only while it waits for the match
Deliver(c, n) ==
  /\ ~crashed /\ ws[c] = OPEN /\ delivered + n <= Len(frame)
  /\ n > 0 \/ connections[c].stage = "dashboard"
  /\ LET data == Slice(frame, delivered, delivered + n)
     IN  /\ Commit("message", c, data, handleConnectionMessage(World, c, data))
         /\ relayIn' = IF c \in activeConnections /\ connections[c].stage = "streaming"
                       THEN [relayIn EXCEPT ![c] = Append(@, data)] ELSE relayIn
  /\ delivered' = delivered + n
  /\ UNCHANGED << relayOut, nMsgs, nChunks >>

ParseInit == Constructed /\ frame \in Frames /\ delivered = 0

ParseNext ==
  \E c \in DOMAIN connections :
    \/ Accept(c)
    \/ \E n \in 0..Len(frame) : Deliver(c, n)
    \/ TargetConnect(c)

ParseSpec == ParseInit /\ [][ParseNext]_vars

\* two clients at a time: the connection events of both interleave freely
PairConns == {1, 2}

PairMsgs == { PFrame, PingText(42) }

PairChunks == { << 88 >> }

PairInit == ConstructedFor(PairConns) /\ frame = <<>> /\ delivered = 0

PairNext ==
  \E c \in DOMAIN connections :
    \/ Accept(c)
    \/ \E data \in PairMsgs : ClientMessage(c, data)
    \/ ClientBeginClose(c)
    \/ ClientClose(c)
    \/ ClientError(c)
    \/ InitialTimeout(c)
    \/ IntervalFire(c)
    \/ TargetConnect(c)
    \/ TargetError(c)
    \/ TargetTimeout(c)
    \/ TargetClose(c)
    \/ \E data \in PairChunks : TargetData(c, data)

PairSpec == PairInit /\ [][PairNext]_vars

\* a caller of the generator: any of its four generate methods, in any order
Generate(G) ==
  /\ G.clock <= MaxClock
  /\ dashboardGenerator' = G
  /\ UNCHANGED << processor, activeConnections, connections, ws, interval, timeout,
                  sock, dataHandler, toTarget, toClient, relayIn, relayOut, cleared,
                  last, crashed, nMsgs, nChunks, frame, delivered >>

GenNext ==
  \/ Generate(generateMetrics(dashboardGenerator))
  \/ Generate(generateAnalytics(dashboardGenerator))
  \/ Generate(generateMonitoring(dashboardGenerator))
  \/ Generate(generateDashboardData(dashboardGenerator))

GenSpec == Init /\ [][GenNext]_vars

(***************************************************************************)
(* Properties                                                              *)
(***************************************************************************)

\* the calls of the handler that ran last, by operation
LastOps == { last.fx[i].op : i \in 1..Len(last.fx) }
IsSend(e) == e.op = "ws.send"
IsWrite(e) == e.op = "target.write"
LastSends == SelectSeq(last.fx, IsSend)
LastWrites == SelectSeq(last.fx, IsWrite)
CloseOps == {"clearInterval", "target.destroy", "ws.close", "delete"}

\* C1: closeConnection is idempotent per connection id.  The call that finds
\* the id registered does the cleanup and returns true; a call that finds it
\* absent returns false and makes none of clearInterval, target destroy,
\* ws.close or registry removal; after any call the id is not registered; and
\* an id that has been removed is never registered again, so every later call
\* is of the second kind.
C1_CloseIdempotent ==
  /\ [](last.ret # "none" =>
          /\ last.id \notin activeConnections
          /\ (last.ret = "true") <=> last.registeredBefore
          /\ last.ret = "true" => "delete" \in LastOps
          /\ last.ret = "false" => LastOps \cap CloseOps = {})
  /\ [][\A c \in DOMAIN ws :
          (ws[c] # NoSocket /\ c \notin activeConnections) => c \notin activeConnections']_vars

\* a second close trigger (the target socket's 'close' after the client's
\* close had removed the connection) found the id absent
C1_Witness ==
  /\ last.event = "target.close" /\ last.ret = "false"
  /\ ~last.registeredBefore /\ last.stageBefore = "streaming"
  /\ dataHandler[last.id] /\ ws[last.id] = CLOSED

\* C2: a 'connect' event arriving after the connection was closed in stage
\* 'detected' is discarded: stage and targetConnection stay as they were,
\* nothing is written to the target, nothing is sent to the client and the
\* id is not registered again.
C2_LateConnectDiscarded ==
  (last.event = "target.connect" /\ ~last.registeredBefore) =>
     /\ connections[last.id].stage = last.stageBefore
     /\ ~connections[last.id].targetConnection
     /\ last.fx = <<>>
     /\ toTarget[last.id] = <<>>
     /\ last.id \notin activeConnections

\* C3: no dashboard_update is sent to a client whose connection has left
\* stage 'dashboard', neither by the interval nor by the delayed first send.
C3_NoDecoyAfterDashboard ==
  (\E i \in 1..Len(last.fx) : last.fx[i].op = "ws.send" /\ last.fx[i].kind = "dashboard_update")
     => last.stageBefore = "dashboard"

\* the leftover payload of a connection's match, <<>> when there is none
Leftover(c) ==
  IF connections[c].formatInfo.payload = Undefined THEN <<>>
  ELSE connections[c].formatInfo.payload[1]

\* what the target has been written after the leftover payload
AfterLeftover(c) ==
  IF Leftover(c) # <<>> /\ toTarget[c] # <<>> THEN Tail(toTarget[c]) ELSE toTarget[c]

\* C4: in stage 'streaming' every client message is written to the target
\* socket, byte for byte and in the order received; none is dropped or
\* answered locally, whatever its content.
C4_RelayClientToTarget ==
  /\ \A c \in DOMAIN connections :
       (c \in activeConnections /\ connections[c].stage = "streaming")
          => AfterLeftover(c) = relayIn[c]
  /\ (last.event = "message" /\ last.registeredBefore /\ last.stageBefore = "streaming")
        => (LastSends = <<>> /\ LastWrites = << FxWrite(last.data) >>)

\* the binary messages sent to the client after the response header
AfterHeader(c) ==
  IF connections[c].formatInfo.format = Some("primary")
     /\ toClient[c] # <<>> /\ toClient[c][1] = << 0, 0, 0 >>
  THEN Tail(toClient[c]) ELSE toClient[c]

ChunkData(log) == [i \in 1..Len(log) |-> log[i].data]
WasOpen(entry) == entry.open

\* C5 as claimed: while the connection is registered in stage 'streaming',
\* every chunk received from the target is sent to the client as one binary
\* message, in arrival order, none dropped or duplicated.
C5_RelayTargetToClient ==
  \A c \in DOMAIN connections :
    (c \in activeConnections /\ connections[c].stage = "streaming")
       => AfterHeader(c) = ChunkData(relayOut[c])

\* C5 as the code has it: a chunk is sent to the client, unchanged and as one
\* binary message, exactly when the client WebSocket is OPEN at its arrival;
\* the chunks that arrive while it is not OPEN are dropped, and the client
\* has got the others in arrival order, none duplicated.
C5_RelayTargetToOpenClient ==
  /\ \A c \in DOMAIN connections :
       (c \in activeConnections /\ connections[c].stage = "streaming")
          => AfterHeader(c) = ChunkData(SelectSeq(relayOut[c], WasOpen))
  /\ (last.event = "target.data" /\ last.registeredBefore)
        => last.fx = (IF last.wsBefore = OPEN THEN << FxBinary(last.data) >> ELSE <<>>)

\* two chunks were relayed to an open client, then one arrived after the
\* client had begun to close and was dropped
C5_Witness ==
  \E c \in activeConnections :
    /\ connections[c].stage = "streaming"
    /\ Len(relayOut[c]) = 2 /\ relayOut[c][1].open /\ ~relayOut[c][2].open
    /\ relayOut[c][1].data # relayOut[c][2].data
    /\ Len(AfterHeader(c)) = 1

\* JSON.parse made a ping or subscribe object of the message
IsControl(data) ==
  JsonParse(data).ok /\ (JsonParse(data).type = "ping" \/ JsonParse(data).action = "subscribe")
NotControl(data) == ~IsControl(data)

\* C6: a non-empty leftover payload is written to the target exactly once,
\* on connect success, before any later client message: nothing is written
\* while the connect is in flight, and from the connect on the target has
\* got the leftover first, followed by the forwarded client messages only.
C6_LeftoverOnceAndFirst ==
  \A c \in DOMAIN connections :
    (connections[c].formatInfo.success /\ Leftover(c) # <<>>) =>
       /\ connections[c].stage = "detected" => toTarget[c] = <<>>
       /\ connections[c].stage = "streaming" =>
            toTarget[c] = << Leftover(c) >> \o SelectSeq(relayIn[c], NotControl)
       /\ (last.event = "target.connect" /\ last.id = c)
             => LastWrites = << FxWrite(Leftover(c)) >>

\* the leftover went out on connect and a later client message followed it
C6_Witness ==
  \E c \in activeConnections :
    /\ connections[c].stage = "streaming" /\ Leftover(c) = << 71, 69 >>
    /\ toTarget[c] = << << 71, 69 >>, << 65, 66 >> >>

\* C7: in stage 'dashboard', data that makes the buffer longer than the cap
\* without matching resets the buffer to empty; the connection stays
\* registered in 'dashboard' with its timer armed and nothing is sent to the
\* client; and a valid frame delivered afterwards into the empty buffer is
\* matched.
C7_CapResetThenMatch ==
  [][\A c \in DOMAIN connections :
       LET data == last'.data
           buf == connections[c].buffer \o data
       IN  (/\ last'.event = "message" /\ last'.id = c /\ c \in activeConnections
            /\ connections[c].stage = "dashboard" /\ NotControl(data))
           => /\ (~parseDataPacket(processor, buf).success /\ Len(buf) > bufferSize)
                   => /\ connections'[c].buffer = <<>>
                      /\ connections'[c].stage = "dashboard"
                      /\ c \in activeConnections'
                      /\ interval[c] /\ interval'[c]
                      /\ SelectSeq(last'.fx, IsSend) = <<>>
              /\ (c \in cleared /\ connections[c].buffer = <<>>
                  /\ parseDataPacket(processor, data).success)
                   => /\ connections'[c].stage = "detected"
                      /\ connections'[c].formatInfo = parseDataPacket(processor, data)
    ]_vars

\* after a reset, a valid Format P frame was delivered and matched
C7_Witness ==
  \E c \in cleared :
    /\ last.event = "message" /\ last.id = c /\ last.data = PFrame
    /\ connections[c].stage = "detected" /\ connections[c].buffer = PFrame

\* C8: when the outbound connect fails or times out, a JSON error
\* notification is sent to the client if it is still open, and then the
\* connection is closed and removed from the registry.
C8_ConnectFailureNotifies ==
  (/\ last.event \in {"target.error", "target.timeout"}
   /\ last.stageBefore = "detected" /\ last.registeredBefore)
  => /\ last.id \notin activeConnections
     /\ last.wsBefore = OPEN =>
          \E i, j \in 1..Len(last.fx) :
            /\ i < j
            /\ last.fx[i].op = "ws.send" /\ last.fx[i].kind = "error"
            /\ last.fx[j].op = "delete"

C10_ControlRoundTrip ==
  [][\A c \in DOMAIN connections :
       (/\ last'.event = "message" /\ last'.id = c /\ c \in activeConnections
        /\ connections[c].stage = "dashboard")
       => /\ \A T \in Timestamps :
               last'.data = PingText(T) =>
                 /\ last'.fx = << FxText("pong", T, <<>>) >>
                 /\ UNCHANGED << connections, activeConnections, interval, timeout, sock >>
          /\ \A ch \in Channels :
               last'.data = SubText(ch) =>
                 /\ last'.fx = << FxText("subscription_confirmed", 0, ch) >>
                 /\ UNCHANGED << connections, activeConnections, interval, timeout, sock >>
    ]_vars

\* a ping was answered while bytes were waiting in the buffer
C10_Witness ==
  /\ last.event = "message" /\ last.data = PingText(42)
  /\ last.stageBefore = "dashboard" /\ last.registeredBefore
  /\ last.fx = << FxText("pong", 42, <<>>) >>
  /\ connections[last.id].buffer # <<>> /\ interval[last.id]

\* the replies handleConnectionMessage gives to control messages
ControlReplies == {"pong", "subscription_confirmed"}

\* C11: a ping or subscribe object received in stage 'detected' or
\* 'streaming' is never answered with pong or subscription_confirmed.
C11_ControlOnlyInAwait ==
  (/\ last.event = "message" /\ last.registeredBefore
   /\ last.stageBefore \in {"detected", "streaming"} /\ IsControl(last.data))
  => ~\E i \in 1..Len(last.fx) :
        last.fx[i].op = "ws.send" /\ last.fx[i].kind \in ControlReplies

\* position of a stage on the path dashboard -> detected -> streaming
StageRank(stage) ==
  CASE stage = "none" -> 0
    [] stage = "dashboard" -> 1
    [] stage = "detected" -> 2
    [] stage = "streaming" -> 3

\* C12: the stage of a connection only moves forward, and once the
\* connection is closed (removed from the registry) no event changes the
\* stage of its record again.
C12_StageForwardOnly ==
  [][\A c \in DOMAIN connections :
       /\ StageRank(connections'[c].stage) >= StageRank(connections[c].stage)
       /\ (ws[c] # NoSocket /\ c \notin activeConnections)
             => connections'[c].stage = connections[c].stage
    ]_vars

\* C13: after a client 'close' or 'error' event, whatever the stage, the
\* connection id is not registered, its periodic timer is not armed and the
\* client WebSocket is not open.
C13_ClientCloseCleansUp ==
  last.event \in {"close", "error"} =>
     /\ last.id \notin activeConnections
     /\ ~interval[last.id]
     /\ ws[last.id] # OPEN
     /\ last.registeredBefore => (last.ret = "true" /\ "delete" \in LastOps)

\* a client 'close' found the connection in 'dashboard' with its timer armed
C13_Witness ==
  /\ last.event = "close" /\ last.registeredBefore /\ last.stageBefore = "dashboard"
  /\ "clearInterval" \in LastOps /\ "delete" \in LastOps
  /\ ~interval[last.id] /\ last.id \notin activeConnections

(***************************************************************************)
(* Properties of the frame detection (ParseSpec)                            *)
(***************************************************************************)

\* address, port and leftover payload of a parse result, under the field
\* names of the revision that made it
ResultAddress(r) == IF r.target # Undefined THEN Some(r.target[1].address) ELSE r.host
ResultPort(r) == IF r.target # Undefined THEN r.target[1].port ELSE r.port
ResultLeftover(r) == IF r.payload # Undefined THEN r.payload ELSE r.remainingBuffer

\* the whole frame arrived in one message, as the first data of connection c
WholeDelivery(c) ==
  /\ last.event = "message" /\ last.id = c /\ last.data = frame
  /\ last.registeredBefore /\ last.stageBefore = "dashboard"
  /\ connections[c].buffer = frame

\* the revisions whose result carries the bytes after the header
ReturnsLeftover == {"part_001", "data-processor.js"}

\* C14: a Format P frame with version 0, the configured identifier, addon
\* length 0, any command byte, port 443, address type 1 and the address
\* bytes 93,184,216,34 is parsed to address "93.184.216.34" and port 443,
\* and the leftover payload is whatever follows the address (in the
\* revisions whose result has a leftover: part_001 and data-processor.js).
C14_PrimaryIPv4Parsed ==
  \A c \in DOMAIN connections :
    (frame \in ValidPFrames /\ WholeDelivery(c)) =>
       LET r == connections[c].formatInfo
       IN  /\ r = parseDataPacket(processor, frame)
           /\ r.success
           /\ ResultAddress(r) = Some(Ipv4Text)
           /\ ResultPort(r) = Some(443)
           /\ processor \in ReturnsLeftover
                 => ResultLeftover(r) = Some(Slice(frame, Len(PHeader), Len(frame)))

\* a frame with command byte 255 and two payload bytes was parsed by part_001
C14_Witness ==
  \E c \in DOMAIN connections :
    /\ WholeDelivery(c) /\ frame = PFrameOf(0, IdBytes, 255, 1, << 71, 69 >>)
    /\ processor = "part_001" /\ connections[c].stage = "detected"
    /\ connections[c].formatInfo.payload = Some(<< 71, 69 >>)

\* C15: a Format P frame that is valid except for its version byte or for
\* one identifier byte is not matched, and the connection stays in
\* 'dashboard'.
C15_BadAuthNeverMatches ==
  \A c \in DOMAIN connections :
    (frame \in BadAuthPFrames /\ WholeDelivery(c)) =>
       /\ ~parseDataPacket(processor, frame).success
       /\ connections[c].stage = "dashboard"

\* C16: the Format S frame with the digest of the configured secret, CR LF,
\* command, address type 3, "example.com", port 8080, CR LF is parsed to
\* address "example.com" and port 8080.
C16_StreamingDomainParsed ==
  \A c \in DOMAIN connections :
    (frame = SFrameWithPort /\ last.event = "message" /\ last.id = c
     /\ last.data = frame /\ last.stageBefore = "dashboard") =>
       LET r == parseDataPacket(processor, frame)
       IN  /\ r.success
           /\ ResultAddress(r) = Some(ExampleCom)
           /\ ResultPort(r) = Some(8080)
           /\ connections[c].formatInfo = r

\* C17: a valid frame delivered in pieces gives the match result (address,
\* port, leftover payload) of the same frame delivered whole.
C17_SplitSameAsWhole ==
  \A c \in DOMAIN connections :
    LET whole == parseDataPacket(processor, frame)
        r == connections[c].formatInfo
    IN  (ws[c] # NoSocket /\ delivered = Len(frame) /\ whole.success) =>
           /\ r.success
           /\ ResultAddress(r) = ResultAddress(whole)
           /\ ResultPort(r) = ResultPort(whole)
           /\ ResultLeftover(r) = ResultLeftover(whole)

\* the bytes a buffer is extended by: what is left of the frame, and two
\* fixed continuations
Extensions ==
  { Slice(frame, delivered, n) : n \in delivered..Len(frame) } \cup { << 0 >>, << 255, 13, 10 >> }

\* C18: parseDataPacket returns the same result when called again on the
\* same buffer, and a buffer it matched is matched in every extension with
\* the same address, port and header length; only the leftover grows.
C18_PrefixStable ==
  \A c \in DOMAIN connections :
    LET B == connections[c].buffer
        r == connections[c].formatInfo
    IN  r.success =>
          /\ parseDataPacket(processor, B) = r
          /\ \A x \in Extensions :
                LET e == parseDataPacket(processor, B \o x)
                IN  /\ e.success
                    /\ ResultAddress(e) = ResultAddress(r)
                    /\ ResultPort(e) = ResultPort(r)
                    /\ e.headerLength = r.headerLength
                    /\ e.format = r.format
                    /\ ResultLeftover(r) # Undefined
                          => ResultLeftover(e) = Some(ResultLeftover(r)[1] \o x)

\* part_001 matched a header whose payload had not arrived yet
C18_Witness ==
  \E c \in DOMAIN connections :
    /\ processor = "part_001" /\ connections[c].formatInfo.success
    /\ connections[c].buffer = PHeader /\ delivered < Len(frame)
    /\ connections[c].formatInfo.headerLength = Some(Len(PHeader))

\* C19: whatever the input that fails detection in stage 'dashboard', the
\* client observes the same: no message is sent in response, the connection
\* stays registered in 'dashboard' with its WebSocket open, and the decoy
\* timers stay as they were.
C19_FailuresIndistinguishable ==
  [][\A c \in DOMAIN connections :
       LET data == last'.data
           buf == connections[c].buffer \o data
       IN  (/\ last'.event = "message" /\ last'.id = c /\ c \in activeConnections
            /\ connections[c].stage = "dashboard" /\ NotControl(data)
            /\ ~parseDataPacket(processor, buf).success)
           => /\ SelectSeq(last'.fx, IsSend) = <<>>
              /\ connections'[c].stage = "dashboard"
              /\ c \in activeConnections'
              /\ ws'[c] = ws[c]
              /\ interval'[c] = interval[c] /\ timeout'[c] = timeout[c]
              /\ ~crashed'
    ]_vars

\* part_001 refused a frame with a wrong identifier byte without a word
C19_Witness ==
  \E c \in activeConnections :
    /\ processor = "part_001" /\ frame \in BadAuthPFrames /\ frame[1] = 0
    /\ WholeDelivery(c) /\ last.fx = <<>>
    /\ connections[c].stage = "dashboard" /\ interval[c] /\ ws[c] = OPEN

\* the shortest header a revision can match: version and identifier, addon
\* length, command, port, address type, domain length
MinHeaderLength == 17 + 1 + 1 + 2 + 1 + 1

\* C20: on a buffer shorter than the shortest header, the empty one
\* included, parseDataPacket fails without throwing and the connection goes
\* on in 'dashboard'; the failure does not stand in the way of a later
\* match: once the buffer holds a frame that parseDataPacket matches, the
\* connection has matched.
C20_ShortBuffersFailSoftly ==
  /\ \A n \in 0..(MinHeaderLength - 1) :
        n <= Len(frame) => parseDataPacket(processor, Slice(frame, 0, n)) = Failure
  /\ \A c \in DOMAIN connections :
        /\ (/\ last.event = "message" /\ last.id = c /\ last.registeredBefore
            /\ last.stageBefore = "dashboard"
            /\ Len(connections[c].buffer) < MinHeaderLength)
           => /\ ~crashed /\ c \in activeConnections
              /\ connections[c].stage = "dashboard"
              /\ ~connections[c].formatInfo.success
              /\ LastSends = <<>>
        /\ (ws[c] # NoSocket /\ parseDataPacket(processor, connections[c].buffer).success)
           => /\ connections[c].formatInfo.success
              /\ connections[c].stage \in {"detected", "streaming"}

\* a buffer that was too short when parseDataPacket first saw it was
\* completed by the next message and matched
C20_Witness ==
  \E c \in DOMAIN connections :
    /\ last.event = "message" /\ last.id = c /\ last.stageBefore = "dashboard"
    /\ connections[c].formatInfo.success
    /\ Len(last.data) < Len(connections[c].buffer)
    /\ Len(connections[c].buffer) - Len(last.data) < MinHeaderLength
    /\ connections[c].buffer = frame

(***************************************************************************)
(* Properties of sockets, timers and the match step (Spec)                  *)
(***************************************************************************)

\* C21: once closeConnection has removed a connection, whatever its stage,
\* no outbound socket of that connection is left that has not been
\* destroyed (or has not closed by itself).
C21_TargetDestroyedOnClose ==
  \A c \in DOMAIN connections :
    (ws[c] # NoSocket /\ c \notin activeConnections)
       => sock[c] \notin {"connecting", "connected"}

\* the step handled last was a match: a client message took the connection
\* out of stage 'dashboard'
MatchStep ==
  /\ last.event = "message" /\ last.registeredBefore /\ last.stageBefore = "dashboard"
  /\ connections[last.id].formatInfo.success

\* number of net.createConnection calls in the handler that ran last
ConnectAttempts == Cardinality({ i \in 1..Len(last.fx) : last.fx[i].op = "createConnection" })

\* C22: the step in which detection succeeds cancels the decoy interval,
\* stores the parse result, sets stage 'detected' and starts exactly one
\* outbound connection attempt; no other step starts one.
C22_MatchStartsOneConnect ==
  /\ MatchStep =>
       /\ ~interval[last.id]
       /\ connections[last.id].stage = "detected"
       /\ connections[last.id].formatInfo
            = parseDataPacket(processor, connections[last.id].buffer)
       /\ ConnectAttempts = 1
       /\ sock[last.id] = "connecting"
       /\ ~crashed
  /\ ~MatchStep => ConnectAttempts = 0

\* C23: a decoy timer, periodic or one-shot, is armed only while its
\* connection is registered and in stage 'dashboard'.
C23_TimersOnlyInDashboard ==
  \A c \in DOMAIN connections :
    (interval[c] \/ timeout[c])
       => (c \in activeConnections /\ connections[c].stage = "dashboard")

\* C24: in stage 'streaming' a failed write surfaces as the 'error' event of
\* the leg it failed on (the target socket's, or the client WebSocket's);
\* its listener closes the connection and removes it from the registry, and
\* from then on nothing is written to the target and nothing is sent to the
\* client for that connection.
C24_WriteFailureCloses ==
  /\ (/\ last.event \in {"target.error", "error"}
      /\ last.stageBefore = "streaming" /\ last.registeredBefore)
     => /\ last.id \notin activeConnections
        /\ last.ret = "true"
        /\ sock[last.id] \notin {"connecting", "connected"}
        /\ ws[last.id] # OPEN
  /\ (last.stageBefore = "streaming" /\ ~last.registeredBefore)
     => (LastWrites = <<>> /\ LastSends = <<>>)

\* a client message that arrived after a failure had closed a relaying
\* connection was written nowhere
C24_Witness ==
  /\ last.event = "message" /\ ~last.registeredBefore /\ last.stageBefore = "streaming"
  /\ dataHandler[last.id] /\ sock[last.id] = "destroyed" /\ ws[last.id] = CLOSING
  /\ relayIn[last.id] # <<>> /\ last.fx = <<>>
  /\ Len(toTarget[last.id]) = Len(relayIn[last.id]) + 1

(***************************************************************************)
(* Properties of the frame formats (ParseSpec)                              *)
(***************************************************************************)

\* C25: a frame whose address type is none of 1, 3, 4 is not matched,
\* whatever follows, and the connection goes on buffering in 'dashboard'.
C25_OtherAddressTypesRefused ==
  \A c \in DOMAIN connections :
    (frame \in BadTypeFrames /\ WholeDelivery(c)) =>
       /\ ~parseDataPacket(processor, frame).success
       /\ connections[c].stage = "dashboard"
       /\ connections[c].buffer = frame

\* C26: a Format S frame whose digest is that of the configured secret in
\* upper case is matched exactly like the lowercase frame, and a frame with
\* other 56 hex characters is not matched.
C26_DigestCaseInsensitive ==
  \A c \in DOMAIN connections :
    (/\ last.event = "message" /\ last.id = c /\ last.data = frame
     /\ last.registeredBefore /\ last.stageBefore = "dashboard"
     /\ processor = "part_001")
    => /\ frame = UpperSFrame =>
            /\ parseDataPacket(processor, SFrame).success
            /\ parseDataPacket(processor, UpperSFrame) = parseDataPacket(processor, SFrame)
            /\ connections[c].stage = "detected"
       /\ frame = BadDigestSFrame =>
            /\ ~parseDataPacket(processor, BadDigestSFrame).success
            /\ connections[c].stage = "dashboard"

\* the text "2001:db8:0:0:0:0:0:1"
Ipv6Text ==
  << 50, 48, 48, 49, 58, 100, 98, 56, 58, 48, 58, 48, 58, 48, 58, 48, 58, 48, 58, 49 >>
\* the text "a.b"
DomainText == << 97, 46, 98 >>

\* what whole delivery of a frame is expected to give: address, port, leftover
Decodes(c, address, port, leftover) ==
  LET r == connections[c].formatInfo
  IN  /\ r.success /\ r = parseDataPacket(processor, frame)
      /\ ResultAddress(r) = Some(address)
      /\ ResultPort(r) = Some(port)
      /\ port \in 0..65535
      /\ processor \in ReturnsLeftover => ResultLeftover(r) = Some(leftover)

\* C27: address type 1 takes 4 bytes and gives dotted decimal, type 3 takes
\* a length byte L and L bytes of domain, type 4 takes 16 bytes and gives
\* eight lowercase hex groups joined by colons, zero groups written out; the
\* port is 256*hi+lo.  What follows the address is the leftover, so exactly
\* those bytes were consumed.
C27_AddressDecodedByType ==
  \A c \in DOMAIN connections :
    WholeDelivery(c) =>
      /\ frame = PFrameOf(0, IdBytes, 1, 1, << 71 >>)
            => Decodes(c, Ipv4Text, 256 * 1 + 187, << 71 >>)
      /\ frame = PDomainFrame => Decodes(c, DomainText, 256 * 31 + 144, << 71, 69 >>)
      /\ frame = PIPv6Frame => Decodes(c, Ipv6Text, 256 * 255 + 255, << 71, 69 >>)
      /\ (frame = SFrame /\ processor = "part_001")
            => /\ connections[c].formatInfo.success
               /\ ResultAddress(connections[c].formatInfo) = Some(DomainText)
               /\ ResultLeftover(connections[c].formatInfo) = Some(<< 72 >>)

\* src/src/data-processor.js decoded the IPv6 frame
C27_Witness ==
  \E c \in DOMAIN connections :
    /\ WholeDelivery(c) /\ frame = PIPv6Frame /\ processor = "data-processor.js"
    /\ connections[c].formatInfo.host = Some(Ipv6Text)
    /\ connections[c].formatInfo.port = Some(65535)
    /\ connections[c].formatInfo.remainingBuffer = Some(<< 71, 69 >>)

\* the addon lengths a frame can announce (one byte)
AddonLengths == 0..255
\* the domain lengths tried with each addon length
DomainLengths == { 0, 3 }

\* Format P frame with N addon bytes, to a domain of L bytes, port 8080
AddonFrame(N, L, tail) ==
  << 0 >> \o IdBytes \o << N >> \o [i \in 1..N |-> 9]
    \o << 1, 31, 144, 3, L >> \o [i \in 1..L |-> 97] \o tail

\* the valid Format P frames of the detection runs
PFramesTried == ValidPFrames \cup { PDomainFrame, PIPv6Frame, PAddonFrame }

\* 18 + N + 1 + 2 + 1 + M, read off a valid Format P frame
HeaderLengthOf(f) ==
  LET N == f[18]
      addressType == f[18 + N + 4]
      M == CASE addressType = 1 -> 4
             [] addressType = 3 -> 1 + f[18 + N + 5]
             [] addressType = 4 -> 16
  IN  18 + N + 1 + 2 + 1 + M

\* the header length a result stands for: the one it names, or else what
\* its leftover leaves of the buffer
ConsumedLength(r, buffer) ==
  IF r.headerLength # Undefined THEN r.headerLength[1]
  ELSE Len(buffer) - Len(ResultLeftover(r)[1])

\* C28: the header of a Format P frame with N addon bytes and M address
\* bytes is 18 + N + 1 + 2 + 1 + M bytes long, for every N in 0..255 and
\* the domain lengths tried: the frame is matched with that header length
\* and the rest as leftover, one byte less of header is not matched, and a
\* frame arriving in pieces is matched when the buffer holds its header.
C28_HeaderLengthComputed ==
  processor \in ReturnsLeftover =>
    /\ last.event = "start" =>
          \A N \in AddonLengths, L \in DomainLengths :
            LET f == AddonFrame(N, L, << 71, 69 >>)
                H == 18 + N + 1 + 2 + 1 + (1 + L)
                r == parseDataPacket(processor, f)
            IN  /\ r.success
                /\ ConsumedLength(r, f) = H
                /\ ResultLeftover(r) = Some(<< 71, 69 >>)
                /\ ~parseDataPacket(processor, Slice(f, 0, H - 1)).success
    /\ \A c \in DOMAIN connections :
          (frame \in PFramesTried /\ ws[c] # NoSocket) =>
             LET r == connections[c].formatInfo
                 B == connections[c].buffer
                 H == HeaderLengthOf(frame)
             IN  /\ r.success <=> Len(B) >= H
                 /\ r.success =>
                       /\ ConsumedLength(r, B) = H
                       /\ ResultLeftover(r) = Some(Slice(B, H, Len(B)))

\* part_001 matched the frame with three addon bytes when its 29 header
\* bytes had arrived in pieces, the payload still to come
C28_Witness ==
  \E c \in DOMAIN connections :
    /\ frame = PAddonFrame /\ processor = "part_001"
    /\ connections[c].formatInfo.headerLength = Some(29)
    /\ Len(last.data) < 29 /\ connections[c].buffer = Slice(frame, 0, 29)
    /\ connections[c].formatInfo.payload = Some(<<>>)

\* C29: the buffer of a connection changes only by appending the bytes of
\* the message received or by being reset to empty, and it is empty after a
\* step that exceeded the cap and after a step that matched a frame.
C29_BufferAppendOrReset ==
  [][\A c \in DOMAIN connections :
       LET old == connections[c].buffer
           new == connections'[c].buffer
       IN  /\ new \in { old, old \o last'.data, <<>> }
           /\ new = old \o last'.data => (new = old \/ (last'.event = "message" /\ last'.id = c))
           /\ (/\ last'.event = "message" /\ last'.id = c /\ c \in activeConnections
               /\ connections[c].stage = "dashboard" /\ NotControl(last'.data))
              => /\ Len(old \o last'.data) > bufferSize
                    /\ ~parseDataPacket(processor, old \o last'.data).success
                      => new = <<>>
                 /\ parseDataPacket(processor, old \o last'.data).success => new = <<>>
    ]_vars

\* C30: handling an event of one connection leaves every other registered
\* connection as it was: its record (stage, buffer, target), its target
\* socket, its timers and its registry membership are the same after the
\* step, and the process that holds them is still running.
C30_OthersUntouched ==
  [][\A c, d \in DOMAIN connections :
       (last'.id = c /\ d # c /\ d \in activeConnections)
         => /\ d \in activeConnections'
            /\ connections'[d] = connections[d]
            /\ sock'[d] = sock[d]
            /\ dataHandler'[d] = dataHandler[d]
            /\ interval'[d] = interval[d]
            /\ timeout'[d] = timeout[d]
            /\ ws'[d] = ws[d]
            /\ ~crashed'
    ]_vars

\* C31: while a connection is registered in stage 'dashboard' with its
\* WebSocket open, the firing of the initial timer and every firing of the
\* periodic timer send exactly one dashboard_update text message, no firing
\* clears the periodic timer, and the periodic timer stays armed.
C31_DashboardUpdates ==
  \A c \in DOMAIN connections :
    /\ (c \in activeConnections /\ connections[c].stage = "dashboard" /\ ws[c] = OPEN)
         => interval[c]
    /\ (/\ last.id = c /\ last.event \in {"initial", "interval"}
        /\ last.registeredBefore /\ last.stageBefore = "dashboard" /\ last.wsBefore = OPEN)
         => /\ LastSends = << FxText("dashboard_update", 0, <<>>) >>
            /\ "clearInterval" \notin LastOps
            /\ last.event = "interval" => interval[c]

\* the periodic timer fires after the initial send and sends an update
C31_Witness ==
  \E c \in DOMAIN connections :
    /\ last.id = c /\ last.event = "interval"
    /\ last.registeredBefore /\ last.stageBefore = "dashboard" /\ last.wsBefore = OPEN
    /\ Len(LastSends) = 1 /\ ~timeout[c] /\ interval[c]

\* C32: a registered connection in stage 'detected' leaves that stage in the
\* end: it reaches 'streaming' or it is removed from the registry.
C32_DetectedEventuallyLeft ==
  \A c \in Conns :
    (c \in activeConnections /\ connections[c].stage = "detected")
      ~> (c \notin activeConnections \/ connections[c].stage = "streaming")

\* C33: a client message other than ping/subscribe JSON that arrives while
\* the connection is registered in stage 'detected' is dropped: the step
\* makes no call, leaves the record, the registry and both output queues as
\* they were, and nothing is written to the target later on its account:
\* every write to the target is the leftover at connect time or the message
\* of the very step, received in stage 'streaming'.
C33_DetectedMessagesDropped ==
  [][\A c \in DOMAIN connections :
       /\ (/\ last'.event = "message" /\ last'.id = c /\ c \in activeConnections
           /\ connections[c].stage = "detected" /\ NotControl(last'.data))
            => /\ last'.fx = <<>>
               /\ connections'[c] = connections[c]
               /\ c \in activeConnections'
               /\ toTarget'[c] = toTarget[c]
               /\ toClient'[c] = toClient[c]
       /\ toTarget'[c] # toTarget[c]
            => \/ /\ last'.event = "target.connect" /\ last'.id = c
                  /\ toTarget'[c] = Append(toTarget[c], Leftover(c))
               \/ /\ last'.event = "message" /\ last'.id = c
                  /\ connections[c].stage = "streaming"
                  /\ toTarget'[c] = Append(toTarget[c], last'.data)
    ]_vars

\* a frame arrived while the connect was in flight
C33_Witness ==
  \E c \in DOMAIN connections :
    /\ last.event = "message" /\ last.id = c /\ last.registeredBefore
    /\ last.stageBefore = "detected" /\ NotControl(last.data) /\ last.data = PFrame
    /\ c \in activeConnections /\ sock[c] = "connecting"

\* C34: a registered connection in stage 'dashboard' never holds more than
\* bufferSize bytes in its buffer once a client message has been handled,
\* whatever was received before.
C34_BufferWithinCap ==
  \A c \in DOMAIN connections :
    (c \in activeConnections /\ connections[c].stage = "dashboard")
      => Len(connections[c].buffer) <= bufferSize

\* a third message pushed the buffer over the cap and the buffer was cleared
C34_Witness ==
  \E c \in DOMAIN connections :
    /\ last.event = "message" /\ last.id = c /\ last.stageBefore = "dashboard"
    /\ "log.bufferCleared" \in LastOps
    /\ c \in activeConnections /\ connections[c].stage = "dashboard"
    /\ connections[c].buffer = <<>> /\ nMsgs = MaxMsgs

\* C35: a 'timeout' event of the target socket closes a registered connection
\* in stage 'detected' and in stage 'streaming' alike: the listener destroys
\* the socket and closeConnection removes the connection, which ends the
\* relay.
C35_TimeoutClosesInAnyStage ==
  \A c \in DOMAIN connections :
    (/\ last.event = "target.timeout" /\ last.id = c /\ last.registeredBefore
     /\ last.stageBefore \in {"detected", "streaming"})
      => /\ sock[c] = "destroyed"
         /\ c \notin activeConnections
         /\ ~interval[c]
         /\ ws[c] # OPEN
         /\ last.ret = "true"
         /\ {"timeout.destroy", "delete"} \subseteq LastOps

\* the timeout ended a relay that had already carried a chunk
C35_Witness ==
  \E c \in DOMAIN connections :
    /\ last.event = "target.timeout" /\ last.id = c /\ last.registeredBefore
    /\ last.stageBefore = "streaming" /\ relayOut[c] # <<>>
    /\ sock[c] = "destroyed" /\ c \notin activeConnections

\* C36: in stage 'dashboard' a message that is not ping/subscribe JSON (other
\* JSON, text that is no JSON, binary) is handled as binary data: its bytes
\* are appended to the buffer, the parser runs on the whole buffer (a match
\* moves the stage on, a failure keeps the bytes or clears them beyond the
\* cap), and nothing is sent to the client.
C36_OtherTextIsData ==
  [][\A c \in DOMAIN connections :
       LET data == last'.data
           buf  == connections[c].buffer \o data
           hit  == parseDataPacket(processor, buf).success
       IN  (/\ last'.event = "message" /\ last'.id = c /\ c \in activeConnections
            /\ connections[c].stage = "dashboard" /\ NotControl(data))
           => /\ SelectSeq(last'.fx, IsSend) = <<>>
              /\ hit => /\ connections'[c].buffer = buf
                        /\ connections'[c].stage = "detected"
              /\ ~hit => /\ connections'[c].stage = "dashboard"
                         /\ connections'[c].buffer =
                              IF Len(buf) > bufferSize THEN <<>> ELSE buf
    ]_vars

\* a JSON text without type 'ping' or action 'subscribe' was appended to
\* bytes received before
C36_Witness ==
  \E c \in DOMAIN connections :
    /\ last.event = "message" /\ last.id = c /\ last.data = OtherJson
    /\ last.registeredBefore /\ last.stageBefore = "dashboard" /\ LastSends = <<>>
    /\ connections[c].buffer = << 65, 66 >> \o OtherJson

\* C37: for every registered connection, targetConnection is set exactly in
\* stage 'streaming' and isDataStream is true exactly in the stages
\* 'detected' and 'streaming'.
C37_FlagsFollowStage ==
  \A c \in activeConnections :
    /\ connections[c].targetConnection <=> connections[c].stage = "streaming"
    /\ connections[c].isDataStream <=> connections[c].stage \in {"detected", "streaming"}

\* a registered connection is streaming with its target socket kept
C37_Witness ==
  \E c \in activeConnections :
    /\ connections[c].stage = "streaming" /\ connections[c].targetConnection
    /\ connections[c].isDataStream /\ last.event = "target.connect" /\ last.id = c

\* the last n entries of a sequence
LastEntries(seq, n) == IF Len(seq) <= n THEN seq ELSE SubSeq(seq, Len(seq) - n + 1, Len(seq))

HistoryTypes == {"metrics", "analytics", "monitoring"}

\* C38: after any sequence of generate calls each of the three history
\* lists holds at most HistoryLimit entries, and they are the entries
\* generated last for that list, in the order of their generation.
C38_HistoryKeepsNewest ==
  \A type \in HistoryTypes :
    /\ Len(dashboardGenerator.dataHistory[type]) <= HistoryLimit
    /\ dashboardGenerator.dataHistory[type]
         = LastEntries(dashboardGenerator.log[type], HistoryLimit)

\* every list has had more entries than it keeps
C38_Witness ==
  \A type \in HistoryTypes :
    /\ Len(dashboardGenerator.log[type]) > HistoryLimit
    /\ Len(dashboardGenerator.dataHistory[type]) = HistoryLimit

====
